---- MODULE Spec2Model ----
(***************************************************************************)
(* A model of the alx-polly server actions (createPoll, submitVote,        *)
(* deletePoll, updatePoll and the read paths) running against the hosted   *)
(* store: the polls and votes tables with their keys, the cascade rule and *)
(* the row-level security policies of the documented schema.               *)
(*                                                                         *)
(* Every server action is a sequence of awaits.  One action of the model   *)
(* is one round trip to the store together with the synchronous code that  *)
(* runs before it (since the previous await) and after it (up to the next  *)
(* await or the return).  Requests in different slots interleave between   *)
(* round trips.                                                            *)
(***************************************************************************)
EXTENDS Integers, Sequences, FiniteSets, Bags, TLC

VARIABLES
    polls,      \* the polls table: poll id -> row
    votes,      \* the votes table: a bag of rows (the generated id is left out)
    nextId,     \* the number of poll ids generated so far
    clock,      \* the store's and the server's time, one tick per stamped write
    calls,      \* request slot -> the server action in flight in it
    last,       \* the request that returned in the last step, with its result
    voted,      \* history: the (poll, user, option) of every successful submitVote
    load,       \* the workload of this run: slots and the form inputs clients send
    cache,      \* the cached renderings of pages: (path, viewer) -> what was rendered
    formOptions,    \* PollCreateForm: the options state, queued updates applied
    shownOptions,   \* PollCreateForm: the options of the render on the screen
    button      \* PollDeleteButton: isDeleting, the rendered button, the handler

vars == <<polls, votes, nextId, clock, calls, last, voted, load,
          cache, formOptions, shownOptions, button>>

\* the state of the client components
ui == <<formOptions, shownOptions, button>>

\* the state of the server, and the responses on their way
server == <<polls, votes, nextId, clock, calls, last, voted, load, cache>>

----------------------------------------------------------------------------
(* Bounds *)

RacePolls == 1
FramePolls == 2
FormPolls == 1
ReadPolls == 3
CachePolls == 1
ButtonPolls == 1
MaxFormOptions == 4
MaxClock == 3

----------------------------------------------------------------------------
(* Identities: supabase.auth.getUser() and user.app_metadata.admin *)

NoUser == "anonymous"
Users == {"u1", "u2"}
Admins == {"u2"}
Sessions == Users \cup {NoUser}

IsAdmin(user) == user \in Admins

NotLoggedInNever(user) == FALSE

\* !user
NotLoggedIn(user) == user = NoUser

----------------------------------------------------------------------------
(* Strings are sequences of characters *)

Whitespace == {" ", "\t"}

Rep(ch, n) == [k \in 1..n |-> ch]

Trim(s) ==
    LET keep == {k \in 1..Len(s) : s[k] \notin Whitespace}
    IN  IF keep = {} THEN <<>>
        ELSE LET first == CHOOSE k \in keep : \A j \in 1..(k - 1) : j \notin keep
                 lst   == CHOOSE k \in keep : \A j \in (k + 1)..Len(s) : j \notin keep
             IN  SubSeq(s, first, lst)

TrimAll(options) == [k \in 1..Len(options) |-> Trim(options[k])]

Truthy(s) == s # <<>>

\* formData.getAll("options").filter(Boolean)
FilterBoolean(submitted) == SelectSeq(submitted, Truthy)

----------------------------------------------------------------------------
(* Results: every server action returns { error: <string> | null } *)

NoError == "null"

ErrQuestion == "Please provide a valid question."
ErrTooFew == "Please provide at least two options."
ErrTooMany == "Maximum 10 options allowed."
ErrQuestionLong == "Question must be 500 characters or less."
ErrOptionEmpty == "All options must be non-empty."
ErrOptionLong == "Each option must be 200 characters or less."
ErrLoginCreate == "You must be logged in to create a poll."
ErrLoginVote == "You must be logged in to vote."
ErrLoginDelete == "You must be logged in to delete a poll."
ErrLoginUpdate == "You must be logged in to update a poll."
ErrAlreadyVoted == "You have already voted on this poll."
ErrPollNotFound == "Poll not found."
ErrInvalidOption == "Invalid option selected."
ErrDeleteNotOwner == "You can only delete your own polls."
ErrUpdateNotOwner == "You can only update your own polls."

\* error.message of the auth client and of the store
ErrAuthSession == "Auth session missing!"
ErrUniqueViolation == "duplicate key value violates unique constraint"
ErrForeignKey == "violates foreign key constraint"
ErrRowSecurity == "new row violates row-level security policy"

MaxQuestionLen == 500
MinOptions == 2
MaxOptions == 10
MaxOptionLen == 200

----------------------------------------------------------------------------
(* Input validation of createPoll and updatePoll *)

OptionErrorNoEmpty(option) ==
    IF Len(option) > MaxOptionLen THEN ErrOptionLong ELSE NoError

\* the body of the loop over the options
OptionError(option) ==
    IF Len(Trim(option)) = 0 THEN ErrOptionEmpty
    ELSE IF Len(option) > MaxOptionLen THEN ErrOptionLong
    ELSE NoError

FirstBadOptionSkipsLast(options) ==
    LET bad == {k \in 1..(Len(options) - 1) : OptionError(options[k]) # NoError}
    IN  IF bad = {} THEN 0 ELSE CHOOSE k \in bad : \A j \in bad : k <= j

\* the first option the loop returns on, 0 if it runs to its end
FirstBadOption(options) ==
    LET bad == {k \in 1..Len(options) : OptionError(options[k]) # NoError}
    IN  IF bad = {} THEN 0 ELSE CHOOSE k \in bad : \A j \in bad : k <= j

ValidateInputTrimmedLength(question, options) ==
    IF question = <<>> \/ Len(Trim(question)) = 0 THEN ErrQuestion
    ELSE IF Len(options) < MinOptions THEN ErrTooFew
    ELSE IF Len(options) > MaxOptions THEN ErrTooMany
    ELSE IF Len(Trim(question)) > MaxQuestionLen THEN ErrQuestionLong
    ELSE IF FirstBadOption(options) # 0
         THEN OptionError(options[FirstBadOption(options)])
    ELSE NoError

ValidateInputOffByOne(question, options) ==
    IF question = <<>> \/ Len(Trim(question)) = 0 THEN ErrQuestion
    ELSE IF Len(options) < MinOptions THEN ErrTooFew
    ELSE IF Len(options) > MaxOptions + 1 THEN ErrTooMany
    ELSE IF Len(question) > MaxQuestionLen THEN ErrQuestionLong
    ELSE IF FirstBadOption(options) # 0
         THEN OptionError(options[FirstBadOption(options)])
    ELSE NoError

\* options: the submitted list after filter(Boolean)
ValidateInput(question, options) ==
    IF question = <<>> \/ Len(Trim(question)) = 0 THEN ErrQuestion
    ELSE IF Len(options) < MinOptions THEN ErrTooFew
    ELSE IF Len(options) > MaxOptions THEN ErrTooMany
    ELSE IF Len(question) > MaxQuestionLen THEN ErrQuestionLong
    ELSE IF FirstBadOption(options) # 0
         THEN OptionError(options[FirstBadOption(options)])
    ELSE NoError

----------------------------------------------------------------------------
(* The store: tables, constraints, policies *)

PollExists(id) == id \in DOMAIN polls

\* row-level security: USING / WITH CHECK (auth.uid() = user_id)
RlsOwnRow(uid, row) == uid # NoUser /\ uid = row.user_id

VoteRow(pollId, uid, optionIndex) ==
    [poll_id |-> pollId, user_id |-> uid, option_index |-> optionIndex]

VotesOf(pollId, uid) ==
    {r \in BagToSet(votes) : r.poll_id = pollId /\ r.user_id = uid}

RowsIn(B, S) == [r \in S |-> B[r]]

CountVotes(pollId, uid) == BagCardinality(RowsIn(votes, VotesOf(pollId, uid)))

ExistingVoteMissed(pollId, uid) == FALSE

\* from("votes").select("id").eq(poll_id).eq(user_id).single():
\* data is a row iff exactly one row matches (otherwise error PGRST116)
ExistingVote(pollId, uid) == CountVotes(pollId, uid) = 1

UniqueViolationDropped(pollId, uid) == FALSE

\* UNIQUE(poll_id, user_id)
UniqueViolation(pollId, uid) == CountVotes(pollId, uid) > 0

ForeignKeyViolationNever(pollId) == FALSE

\* poll_id REFERENCES polls(id)
ForeignKeyViolation(pollId) == ~PollExists(pollId)

VoteInsertErrorNoUnique(uid, row) ==
    IF ~RlsOwnRow(uid, row) THEN ErrRowSecurity
    ELSE IF ForeignKeyViolation(row.poll_id) THEN ErrForeignKey
    ELSE NoError

\* from("votes").insert([...]): the error the store answers with
VoteInsertError(uid, row) ==
    IF ~RlsOwnRow(uid, row) THEN ErrRowSecurity
    ELSE IF ForeignKeyViolation(row.poll_id) THEN ErrForeignKey
    ELSE IF UniqueViolation(row.poll_id, row.user_id) THEN ErrUniqueViolation
    ELSE NoError

CascadeVotesEverything(V, pollId) == EmptyBag

\* ON DELETE CASCADE of votes.poll_id
CascadeVotes(V, pollId) ==
    RowsIn(V, {r \in BagToSet(V) : r.poll_id # pollId})

\* the rows a delete or update by uid with .eq("id", id) touches under the policies
RowsTouched(uid, id) ==
    IF PollExists(id) /\ RlsOwnRow(uid, polls[id]) THEN {id} ELSE {}

RemovePoll(P, id) == [p \in DOMAIN P \ {id} |-> P[p]]

Tally(pollId, optionIndex) ==
    BagCardinality(RowsIn(votes, {r \in BagToSet(votes) :
        r.poll_id = pollId /\ r.option_index = optionIndex}))

InvalidOptionIndexNoLower(optionIndex, options) == optionIndex >= Len(options)

\* submitVote's check of the option index
InvalidOptionIndex(optionIndex, options) ==
    optionIndex < 0 \/ optionIndex >= Len(options)

DeleteDeniedNever(poll, user) == FALSE

DeleteDeniedOwnerOnly(poll, user) == poll.user_id # user

\* deletePoll's authorization check
DeleteDenied(poll, user) == poll.user_id # user /\ ~IsAdmin(user)

UpdateDeniedNever(poll, user) == FALSE

\* updatePoll's ownership check
UpdateDenied(poll, user) == poll.user_id # user

----------------------------------------------------------------------------
(* Requests *)

\* what a request that is not a read returns besides its error
NoResult == [kind |-> "none"]

Idle == [op |-> "none", pc |-> "idle", user |-> NoUser, pollId |-> 0,
         optionIndex |-> 0, question |-> <<>>, options |-> <<>>, revote |-> FALSE,
         pathname |-> "", result |-> NoResult]

\* a request, the round trip it returned from, the result it returned and the
\* tables as that round trip found them
Returned(call, error, P, V) ==
    [op |-> call.op, pc |-> call.pc, user |-> call.user, pollId |-> call.pollId,
     optionIndex |-> call.optionIndex, question |-> call.question,
     options |-> call.options, revote |-> call.revote,
     pathname |-> call.pathname, result |-> call.result, error |-> error,
     before |-> [polls |-> P, votes |-> V]]

NoReturn == Returned(Idle, NoError, <<>>, EmptyBag)

\* the page of one poll
DetailPath(pollId) == "/polls/" \o ToString(pollId)

ListingPath == "/polls"

\* the paths a server action passes to revalidatePath before it returns
RevalidatedPaths(call, error) ==
    IF error # NoError THEN {}
    ELSE IF call.op \in {"createPoll", "deletePoll"} THEN {ListingPath}
    ELSE IF call.op \in {"updatePoll", "submitVote"} THEN {DetailPath(call.pollId)}
    ELSE {}

\* revalidatePath(path): the cached renderings of path are dropped
Revalidate(paths) ==
    [key \in {k \in DOMAIN cache : k.path \notin paths} |-> cache[key]]

\* the request in slot c returns error; its slot is free again
Return(c, call, error) ==
    /\ calls' = [calls EXCEPT ![c] = Idle]
    /\ last' = Returned(call, error, polls, votes)
    /\ cache' = Revalidate(RevalidatedPaths(call, error))

\* the request in slot c goes on to its next round trip
Await(c, call, pc) ==
    /\ calls' = [calls EXCEPT ![c] = [call EXCEPT !.pc = pc]]
    /\ last' = NoReturn
    /\ UNCHANGED cache

\* supabase.auth.getUser() without a session: user is null, with or without an error
AuthErrors(user) == IF user = NoUser THEN {NoError, ErrAuthSession} ELSE {NoError}

HasVoted(pollId, user) == \E v \in voted : v[1] = pollId /\ v[2] = user

----------------------------------------------------------------------------
(* createPoll: validation, getUser and the insert; one round trip to the store *)

NewPollUntrimmed(user, question, options) ==
    [user_id |-> user, question |-> question, options |-> options,
     created_at |-> clock + 1, updated_at |-> clock + 1]

\* the row createPoll inserts, with the defaults of the table
NewPoll(user, question, options) ==
    [user_id |-> user, question |-> Trim(question), options |-> TrimAll(options),
     created_at |-> clock + 1, updated_at |-> clock + 1]

CreatePoll(c, user, question, submitted) ==
    LET options == FilterBoolean(submitted)
        call == [Idle EXCEPT !.op = "createPoll", !.pc = "check", !.user = user,
                             !.question = question, !.options = submitted]
        invalid == ValidateInput(question, options)
    IN  /\ calls[c] = Idle /\ last = NoReturn
        /\ \E authError \in AuthErrors(user) :
            IF invalid # NoError THEN
                /\ Return(c, call, invalid)
                /\ UNCHANGED <<polls, votes, nextId, clock, voted, load>>
            ELSE IF authError # NoError THEN
                /\ Return(c, call, authError)
                /\ UNCHANGED <<polls, votes, nextId, clock, voted, load>>
            ELSE IF NotLoggedIn(user) THEN
                /\ Return(c, call, ErrLoginCreate)
                /\ UNCHANGED <<polls, votes, nextId, clock, voted, load>>
            ELSE IF ~RlsOwnRow(user, NewPoll(user, question, options)) THEN
                /\ Return(c, call, ErrRowSecurity)
                /\ UNCHANGED <<polls, votes, nextId, clock, voted, load>>
            ELSE
                /\ nextId < load.maxPolls
                /\ clock < MaxClock
                /\ polls' = (nextId + 1 :> NewPoll(user, question, options)) @@ polls
                /\ nextId' = nextId + 1
                /\ clock' = clock + 1
                /\ Return(c, call, NoError)
                /\ UNCHANGED <<votes, voted, load>>

----------------------------------------------------------------------------
(* submitVote: getUser and the existing-vote lookup; the poll lookup and the   *)
(* index check; the insert                                                     *)

SubmitVoteCheck(c, user, pollId, optionIndex) ==
    LET call == [Idle EXCEPT !.op = "submitVote", !.pc = "check", !.user = user, !.pollId = pollId,
                             !.optionIndex = optionIndex,
                             !.revote = HasVoted(pollId, user)]
    IN  /\ calls[c] = Idle /\ last = NoReturn
        /\ IF NotLoggedIn(user) THEN Return(c, call, ErrLoginVote)
           ELSE IF ExistingVote(pollId, user) THEN Return(c, call, ErrAlreadyVoted)
           ELSE Await(c, call, "getPoll")
        /\ UNCHANGED <<polls, votes, nextId, clock, voted, load>>

SubmitVotePollIndexFirst(c) ==
    LET call == calls[c]
    IN  /\ call.op = "submitVote" /\ call.pc = "getPoll" /\ last = NoReturn
        /\ IF call.optionIndex < 0 THEN Return(c, call, ErrInvalidOption)
           ELSE IF ~PollExists(call.pollId) THEN Return(c, call, ErrPollNotFound)
           ELSE IF call.optionIndex >= Len(polls[call.pollId].options)
                THEN Return(c, call, ErrInvalidOption)
           ELSE Await(c, call, "insert")
        /\ UNCHANGED <<polls, votes, nextId, clock, voted, load>>

SubmitVotePoll(c) ==
    LET call == calls[c]
    IN  /\ call.op = "submitVote" /\ call.pc = "getPoll" /\ last = NoReturn
        /\ IF ~PollExists(call.pollId) THEN Return(c, call, ErrPollNotFound)
           ELSE IF InvalidOptionIndex(call.optionIndex, polls[call.pollId].options)
                THEN Return(c, call, ErrInvalidOption)
           ELSE Await(c, call, "insert")
        /\ UNCHANGED <<polls, votes, nextId, clock, voted, load>>

SubmitVoteInsert(c) ==
    LET call == calls[c]
        row == VoteRow(call.pollId, call.user, call.optionIndex)
        error == VoteInsertError(call.user, row)
    IN  /\ call.op = "submitVote" /\ call.pc = "insert" /\ last = NoReturn
        /\ IF error # NoError THEN UNCHANGED <<votes, voted>>
           ELSE /\ votes' = votes (+) SetToBag({row})
                /\ voted' = voted \cup {<<call.pollId, call.user, call.optionIndex>>}
        /\ Return(c, call, error)
        /\ UNCHANGED <<polls, nextId, clock, load>>

----------------------------------------------------------------------------
(* deletePoll: getUser, the poll lookup and the authorization check; the delete *)

DeletePollCheck(c, user, pollId) ==
    LET call == [Idle EXCEPT !.op = "deletePoll", !.pc = "check", !.user = user, !.pollId = pollId]
    IN  /\ calls[c] = Idle /\ last = NoReturn
        /\ \E authError \in AuthErrors(user) :
            IF authError # NoError THEN Return(c, call, authError)
            ELSE IF NotLoggedIn(user) THEN Return(c, call, ErrLoginDelete)
            ELSE IF ~PollExists(pollId) THEN Return(c, call, ErrPollNotFound)
            ELSE IF DeleteDenied(polls[pollId], user)
                 THEN Return(c, call, ErrDeleteNotOwner)
            ELSE Await(c, call, "delete")
        /\ UNCHANGED <<polls, votes, nextId, clock, voted, load>>

DeletePollWrite(c) ==
    LET call == calls[c]
        touched == RowsTouched(call.user, call.pollId)
    IN  /\ call.op = "deletePoll" /\ call.pc = "delete" /\ last = NoReturn
        /\ IF touched = {} THEN UNCHANGED <<polls, votes>>
           ELSE /\ polls' = RemovePoll(polls, call.pollId)
                /\ votes' = CascadeVotes(votes, call.pollId)
        /\ Return(c, call, NoError)
        /\ UNCHANGED <<nextId, clock, voted, load>>

----------------------------------------------------------------------------
(* updatePoll: validation, getUser, the poll lookup and the ownership check;   *)
(* the update                                                                  *)

UpdatePollCheckAfterWrite(c, user, pollId, question, submitted) ==
    LET options == FilterBoolean(submitted)
        call == [Idle EXCEPT !.op = "updatePoll", !.pc = "check", !.user = user, !.pollId = pollId,
                             !.question = question, !.options = submitted]
        invalid == ValidateInput(question, options)
    IN  /\ calls[c] = Idle /\ last = NoReturn
        /\ \E authError \in AuthErrors(user) :
            IF invalid # NoError THEN Return(c, call, invalid) /\ UNCHANGED polls
            ELSE IF authError # NoError THEN Return(c, call, authError) /\ UNCHANGED polls
            ELSE IF NotLoggedIn(user) THEN Return(c, call, ErrLoginUpdate) /\ UNCHANGED polls
            ELSE IF ~PollExists(pollId) THEN Return(c, call, ErrPollNotFound) /\ UNCHANGED polls
            ELSE IF UpdateDenied(polls[pollId], user)
                 THEN /\ polls' = [polls EXCEPT ![pollId].question = Trim(question)]
                      /\ Return(c, call, ErrUpdateNotOwner)
            ELSE Await(c, call, "update") /\ UNCHANGED polls
        /\ UNCHANGED <<votes, nextId, clock, voted, load>>

UpdatePollCheck(c, user, pollId, question, submitted) ==
    LET options == FilterBoolean(submitted)
        call == [Idle EXCEPT !.op = "updatePoll", !.pc = "check", !.user = user, !.pollId = pollId,
                             !.question = question, !.options = submitted]
        invalid == ValidateInput(question, options)
    IN  /\ calls[c] = Idle /\ last = NoReturn
        /\ \E authError \in AuthErrors(user) :
            IF invalid # NoError THEN Return(c, call, invalid)
            ELSE IF authError # NoError THEN Return(c, call, authError)
            ELSE IF NotLoggedIn(user) THEN Return(c, call, ErrLoginUpdate)
            ELSE IF ~PollExists(pollId) THEN Return(c, call, ErrPollNotFound)
            ELSE IF UpdateDenied(polls[pollId], user)
                 THEN Return(c, call, ErrUpdateNotOwner)
            ELSE Await(c, call, "update")
        /\ UNCHANGED <<polls, votes, nextId, clock, voted, load>>

UpdatedPollRestamped(poll, question, options) ==
    [poll EXCEPT !.question = Trim(question), !.options = TrimAll(options),
                 !.created_at = clock + 1, !.updated_at = clock + 1]

UpdatedPollQuestionOnly(poll, question, options) ==
    [poll EXCEPT !.question = Trim(question), !.updated_at = clock + 1]

\* the row after updatePoll's update
UpdatedPoll(poll, question, options) ==
    [poll EXCEPT !.question = Trim(question), !.options = TrimAll(options),
                 !.updated_at = clock + 1]

UpdatePollWrite(c) ==
    LET call == calls[c]
        touched == RowsTouched(call.user, call.pollId)
    IN  /\ call.op = "updatePoll" /\ call.pc = "update" /\ last = NoReturn
        /\ IF touched = {} THEN UNCHANGED <<polls, clock>>
           ELSE /\ clock < MaxClock
                /\ polls' = [polls EXCEPT ![call.pollId] =
                        UpdatedPoll(@, call.question, FilterBoolean(call.options))]
                /\ clock' = clock + 1
        /\ Return(c, call, NoError)
        /\ UNCHANGED <<votes, nextId, voted, load>>

----------------------------------------------------------------------------
(* Read paths *)

ErrNoRows == "JSON object requested, multiple (or no) rows returned"
ErrNotAuthenticated == "Not authenticated"

\* JavaScript values of the permission flags
JsTrue == "true"
JsFalse == "false"
Undefined == "undefined"

\* a === b
StrictEquals(a, b) == IF a = b THEN JsTrue ELSE JsFalse

\* user?.app_metadata?.admin: set to true on an admin, absent otherwise
AdminFlag(user) == IF IsAdmin(user) THEN JsTrue ELSE Undefined

\* a || b: a if it is truthy, b otherwise
JsOr(a, b) == IF a = JsTrue THEN a ELSE b

GetPollByIdOwnerOnly(id, viewer) ==
    IF ~PollExists(id) THEN [kind |-> "poll", error |-> ErrNoRows]
    ELSE [kind |-> "poll", poll |-> polls[id], id |-> id,
          canEdit |-> StrictEquals(viewer, polls[id].user_id),
          canDelete |-> StrictEquals(viewer, polls[id].user_id),
          error |-> NoError]

\* getPollById: the row with the viewer's permission flags
GetPollById(id, viewer) ==
    IF ~PollExists(id) THEN [kind |-> "poll", error |-> ErrNoRows]
    ELSE [kind |-> "poll", poll |-> polls[id], id |-> id,
          canEdit |-> StrictEquals(viewer, polls[id].user_id),
          canDelete |-> JsOr(StrictEquals(viewer, polls[id].user_id),
                             AdminFlag(viewer)),
          error |-> NoError]

\* .order("created_at", { ascending: false })
RECURSIVE NewestFirst(_)
NewestFirst(ids) ==
    IF ids = {} THEN <<>>
    ELSE LET newest == CHOOSE p \in ids :
                            \A o \in ids : polls[p].created_at >= polls[o].created_at
         IN  <<newest>> \o NewestFirst(ids \ {newest})

\* (poll) => ({ ...poll, canEdit: true, canDelete: true })
WithContext(id) ==
    [poll |-> polls[id], id |-> id, canEdit |-> JsTrue, canDelete |-> JsTrue]

GetUserPollsUnfiltered(user) ==
    IF NotLoggedIn(user)
    THEN [kind |-> "polls", polls |-> <<>>, error |-> ErrNotAuthenticated]
    ELSE LET rows == NewestFirst(DOMAIN polls)
         IN  [kind |-> "polls",
              polls |-> [k \in DOMAIN rows |-> WithContext(rows[k])],
              error |-> NoError]

\* getUserPolls: the caller's polls, newest first, with the permission flags
GetUserPolls(user) ==
    IF NotLoggedIn(user)
    THEN [kind |-> "polls", polls |-> <<>>, error |-> ErrNotAuthenticated]
    ELSE LET rows == NewestFirst({p \in DOMAIN polls : polls[p].user_id = user})
         IN  [kind |-> "polls",
              polls |-> [k \in DOMAIN rows |-> WithContext(rows[k])],
              error |-> NoError]

AdminPageAnyUser(user) ==
    IF NotLoggedIn(user) THEN [kind |-> "redirect", redirect |-> "/login"]
    ELSE [kind |-> "page", polls |-> NewestFirst(DOMAIN polls)]

\* the admin page: its redirects and its listing of all polls
AdminPage(user) ==
    IF NotLoggedIn(user) THEN [kind |-> "redirect", redirect |-> "/login"]
    ELSE IF ~IsAdmin(user)
         THEN [kind |-> "redirect", redirect |-> "/polls?error=unauthorized"]
    ELSE [kind |-> "page", polls |-> NewestFirst(DOMAIN polls)]

----------------------------------------------------------------------------
(* The route guard: updateSession of the middleware *)

\* pathname.startsWith(prefix)
StartsWith(pathname, prefix) ==
    Len(pathname) >= Len(prefix) /\ SubSeq(pathname, 1, Len(prefix)) = prefix

NoParams == [k \in {} |-> ""]

\* url.searchParams.set(key, value)
SetParam(searchParams, key, value) ==
    [k \in DOMAIN searchParams \cup {key} |->
        IF k = key THEN value ELSE searchParams[k]]

\* NextResponse.redirect(url), url a clone of the request's with a new pathname
Redirect(pathname, searchParams) ==
    [kind |-> "redirect", pathname |-> pathname, searchParams |-> searchParams]

\* return supabaseResponse: the request goes on to the page
Proceed == [kind |-> "next"]

AdminPrefix == "/admin"

PublicPrefixesNoRegister == {"/login", "/auth", "/_next", "/api"}

\* the prefixes the general check lets through without a user
PublicPrefixes == {"/login", "/register", "/auth", "/_next", "/api"}

UpdateSessionNoRoleCheck(request, user) ==
    IF /\ NotLoggedIn(user)
       /\ \A prefix \in PublicPrefixes : ~StartsWith(request.pathname, prefix)
       /\ request.pathname # "/"
    THEN Redirect("/login", request.searchParams)
    ELSE Proceed

UpdateSession(request, user) ==
    IF StartsWith(request.pathname, AdminPrefix) /\ NotLoggedIn(user)
    THEN Redirect("/login", SetParam(request.searchParams, "redirect", "/admin"))
    ELSE IF StartsWith(request.pathname, AdminPrefix) /\ AdminFlag(user) # JsTrue
    THEN Redirect("/polls", SetParam(request.searchParams, "error", "unauthorized"))
    ELSE IF /\ NotLoggedIn(user)
            /\ \A prefix \in PublicPrefixes : ~StartsWith(request.pathname, prefix)
            /\ request.pathname # "/"
    THEN Redirect("/login", request.searchParams)
    ELSE Proceed

----------------------------------------------------------------------------
(* Reads: a page request passes the route guard; the pages call the read       *)
(* actions.  Each is one query, answered from the tables as they are.          *)

Read(c, op, user, pollId, pathname, result, error) ==
    /\ calls[c] = Idle /\ last = NoReturn
    /\ Return(c, [Idle EXCEPT !.op = op, !.pc = "read", !.user = user,
                              !.pollId = pollId, !.pathname = pathname,
                              !.result = result], error)
    /\ UNCHANGED <<polls, votes, nextId, clock, voted, load>>

Middleware(c, request, user) ==
    Read(c, "updateSession", user, 0, request.pathname,
         [request |-> request, response |-> UpdateSession(request, user)], NoError)

ViewPoll(c, pollId, viewer) ==
    Read(c, "getPollById", viewer, pollId, "",
         GetPollById(pollId, viewer), GetPollById(pollId, viewer).error)

ListOwnPolls(c, user) ==
    Read(c, "getUserPolls", user, 0, "", GetUserPolls(user), GetUserPolls(user).error)

ListAllPolls(c, user) ==
    Read(c, "AdminPage", user, 0, "/admin", AdminPage(user), NoError)

----------------------------------------------------------------------------
(* Cached pages: a visit is served from the cache when the page is there, and  *)
(* rendered from the tables and cached when it is not.                         *)

CacheKey(path, viewer) == [path |-> path, viewer |-> viewer]

Visit(c, viewer, pollId, path, fresh) ==
    LET key == CacheKey(path, viewer)
        shown == IF key \in DOMAIN cache THEN cache[key] ELSE fresh
    IN  /\ calls[c] = Idle /\ last = NoReturn
        /\ cache' = [k \in DOMAIN cache \cup {key} |->
                        IF k = key THEN shown ELSE cache[k]]
        /\ last' = Returned([Idle EXCEPT !.op = "visit", !.pc = "read",
                                         !.user = viewer, !.pollId = pollId,
                                         !.pathname = path, !.result = shown],
                            NoError, polls, votes)
        /\ UNCHANGED <<polls, votes, nextId, clock, calls, voted, load>>

\* PollsPage
VisitListing(c, viewer) == Visit(c, viewer, 0, ListingPath, GetUserPolls(viewer))

\* the page of one poll
VisitDetail(c, pollId, viewer) ==
    Visit(c, viewer, pollId, DetailPath(pollId), GetPollById(pollId, viewer))

----------------------------------------------------------------------------
(* PollCreateForm: the options state.  An event handler is a closure of the    *)
(* render on the screen: what it reads of options is shownOptions, while the   *)
(* updater it passes to setOptions is applied to the state as queued so far.   *)
(* Indices are 1-based here.                                                   *)

\* useState(["", ""])
InitialOptions == <<"", "">>

\* what the user types into an option
Typed == {"", "a"}

HandleOptionChange(idx, value) ==
    /\ formOptions' = [i \in DOMAIN formOptions |->
                            IF i = idx THEN value ELSE formOptions[i]]
    /\ UNCHANGED shownOptions

AddOption ==
    /\ Len(formOptions) < MaxFormOptions
    /\ formOptions' = Append(formOptions, "")
    /\ UNCHANGED shownOptions

\* opts.filter((_, i) => i !== idx)
WithoutIndex(opts, idx) ==
    [i \in 1..(Len(opts) - (IF idx \in DOMAIN opts THEN 1 ELSE 0)) |->
        IF i < idx THEN opts[i] ELSE opts[i + 1]]

RemoveOption(idx) ==
    /\ IF Len(shownOptions) > 2
          THEN formOptions' = WithoutIndex(formOptions, idx)
          ELSE UNCHANGED formOptions
    /\ UNCHANGED shownOptions

\* the Remove buttons are rendered when more than two options are shown
RemoveShown == Len(shownOptions) > 2

\* React renders the component with the state as updated
RenderForm ==
    /\ shownOptions # formOptions
    /\ shownOptions' = formOptions
    /\ UNCHANGED formOptions

----------------------------------------------------------------------------
(* PollDeleteButton: handleDelete up to its await, its continuation, and the   *)
(* render of the button.  The updates of a click are rendered before the       *)
(* browser hands the next click to the page.                                   *)

\* useState(false), nothing clicked yet
ButtonIdle ==
    [isDeleting |-> FALSE, disabled |-> FALSE, pc |-> "idle", slot |-> 0,
     answer |-> "none", outcome |-> "none"]

\* disabled={isDeleting}
Clickable == ~button.disabled

\* confirm(...) answered with Cancel
HandleDeleteDeclined ==
    /\ Clickable
    /\ button' = [button EXCEPT !.answer = "declined"]
    /\ UNCHANGED <<polls, votes, nextId, clock, calls, last, voted, load, cache,
                   formOptions, shownOptions>>

\* confirm(...) answered with OK: setIsDeleting(true) and the call of deletePoll
HandleDeleteAccepted(c, pollId) ==
    /\ Clickable
    /\ DeletePollCheck(c, load.session, pollId)
    /\ button' = [button EXCEPT !.isDeleting = TRUE, !.disabled = TRUE,
                                !.pc = "pending",
                                !.slot = c, !.answer = "accepted", !.outcome = "none"]
    /\ UNCHANGED <<formOptions, shownOptions>>

\* the call the handler awaits has returned
Answered == button.pc # "idle" /\ calls[button.slot] = Idle /\ last # NoReturn

SettledNoFinally(outcome) ==
    [button EXCEPT !.pc = "idle", !.outcome = outcome,
                   !.isDeleting = (outcome = "caught")]

\* finally { setIsDeleting(false) }
Settled(outcome) ==
    [button EXCEPT !.pc = "idle", !.outcome = outcome, !.isDeleting = FALSE]

\* the awaited call returns: alert(result.error), or window.location.reload()
HandleDeleteReturned ==
    /\ Answered
    /\ button' = Settled(IF last.error # NoError THEN "alert" ELSE "reload")
    /\ last' = NoReturn
    /\ UNCHANGED <<polls, votes, nextId, clock, calls, voted, load, cache,
                   formOptions, shownOptions>>

\* the awaited call throws: catch { alert(...) }
HandleDeleteThrown ==
    /\ button.pc # "idle"
    /\ button' = Settled("caught")
    /\ UNCHANGED <<polls, votes, nextId, clock, calls, last, voted, load, cache,
                   formOptions, shownOptions>>

\* React renders the button with the state as updated (or the page has reloaded)
RenderButton ==
    /\ button.disabled # button.isDeleting
    /\ button' = [button EXCEPT !.disabled = button.isDeleting]
    /\ UNCHANGED <<polls, votes, nextId, clock, calls, last, voted, load, cache,
                   formOptions, shownOptions>>

----------------------------------------------------------------------------
(* The response of the request that returned reaches its caller *)

Deliver ==
    /\ last # NoReturn
    /\ last' = NoReturn
    /\ UNCHANGED <<polls, votes, nextId, clock, calls, voted, load, cache>>

----------------------------------------------------------------------------
(* Workloads: what the clients of one run send *)

PollIds == 1..load.maxPolls

Form(question, options) == [question |-> question, options |-> options]

Q == <<" ", "q", " ">>
R == <<"r">>
A == <<"a">>
B == <<" ", "b">>
C == <<"c">>
Empty == <<>>
Blank == <<" ", "\t">>

TwoOptions == <<A, B>>
ThreeOptions == <<A, B, C>>

\* two requests at a time on one poll
RaceLoad ==
    [slots |-> {1, 2}, maxPolls |-> RacePolls, indices |-> {-1, 0, 2},
     viewers |-> {}, requests |-> {}, visitors |-> {}, formEvents |-> FALSE,
     forms |-> {Form(Q, TwoOptions), Form(Q, ThreeOptions)}]

\* one request at a time on two polls
FrameLoad ==
    [slots |-> {1}, maxPolls |-> FramePolls, indices |-> {0},
     viewers |-> {}, requests |-> {}, visitors |-> {}, formEvents |-> FALSE,
     forms |-> {Form(Q, TwoOptions), Form(R, ThreeOptions)}]

\* one request at a time on one poll, with every kind of form a client can submit
FormLoad ==
    [slots |-> {1}, maxPolls |-> FormPolls, indices |-> {},
     viewers |-> {}, requests |-> {}, visitors |-> {}, formEvents |-> FALSE,
     forms |->
        {Form(q, TwoOptions) : q \in
            {Empty, Blank, Q, Rep("q", MaxQuestionLen), Rep("q", MaxQuestionLen + 1),
             <<" ">> \o Rep("q", MaxQuestionLen)}}
        \cup
        {Form(Q, l) : l \in
            {<<A>>, <<A, Empty>>, <<A, Empty, B>>, ThreeOptions,
             Rep(A, MaxOptions), Rep(A, MaxOptions + 1),
             Rep(A, MaxOptions) \o <<Empty>>,
             <<A, Blank>>, <<A, Rep("o", MaxOptionLen)>>,
             <<A, Rep("o", MaxOptionLen + 1)>>,
             <<A, <<" ">> \o Rep("o", MaxOptionLen)>>}}
        \cup
        {Form(Blank, <<A>>), Form(Rep("q", MaxQuestionLen + 1), <<A>>),
         Form(Rep("q", MaxQuestionLen + 1), <<A, Blank>>)}]

\* request.nextUrl of a page request
Request(pathname, searchParams) ==
    [pathname |-> pathname, searchParams |-> searchParams]

Pathnames ==
    {"/", "/admin", "/admin/users", "/administrator", "/adm", "/polls", "/polls/1",
     "/create", "/login", "/loginx", "/register", "/auth/callback", "/_next/static",
     "/api/polls", "/ap"}

\* one request at a time on two polls, with the pages read by every kind of viewer
ReadLoad ==
    [slots |-> {1}, maxPolls |-> ReadPolls, indices |-> {},
     viewers |-> Sessions, visitors |-> {}, formEvents |-> FALSE,
     requests |-> {Request(pathname, NoParams) : pathname \in Pathnames}
                    \cup {Request("/admin/users", SetParam(NoParams, "tab", "all")),
                          Request("/polls", SetParam(NoParams, "redirect", "/x"))},
     forms |-> {Form(Q, TwoOptions), Form(R, ThreeOptions)}]

\* one request at a time on one poll, whose pages a signed-in user visits
CacheLoad ==
    [slots |-> {1}, maxPolls |-> CachePolls, indices |-> {0},
     viewers |-> {}, requests |-> {}, visitors |-> {"u1"}, formEvents |-> FALSE,
     forms |-> {Form(Q, TwoOptions), Form(R, ThreeOptions)}]

\* the create form on the screen, no request
FormUiLoad ==
    [slots |-> {1}, maxPolls |-> 0, indices |-> {},
     viewers |-> {}, requests |-> {}, visitors |-> {}, formEvents |-> TRUE,
     forms |-> {}]

\* the delete button of a poll in the browser of one session
ButtonLoad(session) ==
    [slots |-> {1, 2}, maxPolls |-> ButtonPolls, indices |-> {},
     viewers |-> {}, requests |-> {}, visitors |-> {}, formEvents |-> FALSE,
     forms |-> {Form(Q, TwoOptions)}, session |-> session]

Loads == {RaceLoad, FrameLoad, FormLoad, ReadLoad, CacheLoad, FormUiLoad}

Init ==
    /\ polls = <<>>
    /\ votes = EmptyBag
    /\ nextId = 0
    /\ clock = 0
    /\ voted = {}
    /\ last = NoReturn
    /\ load \in Loads
    /\ calls = [c \in load.slots |-> Idle]
    /\ cache = <<>>
    /\ formOptions = InitialOptions
    /\ shownOptions = InitialOptions
    /\ button = ButtonIdle

Next ==
    \/ \E c \in load.slots, user \in Sessions, form \in load.forms :
          CreatePoll(c, user, form.question, form.options) /\ UNCHANGED ui
    \/ \E c \in load.slots, user \in Sessions, pollId \in PollIds,
          optionIndex \in load.indices : SubmitVoteCheck(c, user, pollId, optionIndex)
          /\ UNCHANGED ui
    \/ \E c \in load.slots : SubmitVotePoll(c) /\ UNCHANGED ui
    \/ \E c \in load.slots : SubmitVoteInsert(c) /\ UNCHANGED ui
    \/ \E c \in load.slots, user \in Sessions, pollId \in PollIds :
          DeletePollCheck(c, user, pollId) /\ UNCHANGED ui
    \/ \E c \in load.slots : DeletePollWrite(c) /\ UNCHANGED ui
    \/ \E c \in load.slots, user \in Sessions, pollId \in PollIds, form \in load.forms :
          UpdatePollCheck(c, user, pollId, form.question, form.options)
          /\ UNCHANGED ui
    \/ \E c \in load.slots : UpdatePollWrite(c) /\ UNCHANGED ui
    \/ \E c \in load.slots, request \in load.requests, user \in load.viewers :
          Middleware(c, request, user) /\ UNCHANGED ui
    \/ \E c \in load.slots, pollId \in PollIds, viewer \in load.viewers :
          ViewPoll(c, pollId, viewer) /\ UNCHANGED ui
    \/ \E c \in load.slots, user \in load.viewers : ListOwnPolls(c, user)
          /\ UNCHANGED ui
    \/ \E c \in load.slots, user \in load.viewers : ListAllPolls(c, user)
          /\ UNCHANGED ui
    \/ \E c \in load.slots, viewer \in load.visitors : VisitListing(c, viewer)
          /\ UNCHANGED ui
    \/ \E c \in load.slots, pollId \in PollIds, viewer \in load.visitors :
          VisitDetail(c, pollId, viewer) /\ UNCHANGED ui
    \/ \E idx \in DOMAIN shownOptions, value \in Typed :
          load.formEvents /\ HandleOptionChange(idx, value) /\ UNCHANGED <<server, button>>
    \/ load.formEvents /\ AddOption /\ UNCHANGED <<server, button>>
    \/ \E idx \in DOMAIN shownOptions :
          load.formEvents /\ RemoveShown /\ RemoveOption(idx) /\ UNCHANGED <<server, button>>
    \/ load.formEvents /\ RenderForm /\ UNCHANGED <<server, button>>
    \/ Deliver /\ UNCHANGED ui

Spec == Init /\ [][Next]_vars

\* the delete button in the browser of each kind of session
ButtonInit ==
    /\ polls = <<>>
    /\ votes = EmptyBag
    /\ nextId = 0
    /\ clock = 0
    /\ voted = {}
    /\ last = NoReturn
    /\ load \in {ButtonLoad(session) : session \in Sessions}
    /\ calls = [c \in load.slots |-> Idle]
    /\ cache = <<>>
    /\ formOptions = InitialOptions
    /\ shownOptions = InitialOptions
    /\ button = ButtonIdle

ServerStep == \E c \in load.slots : DeletePollWrite(c) /\ UNCHANGED ui

\* a response nobody awaits
Dropped == Deliver /\ ~Answered /\ UNCHANGED ui

ButtonNext ==
    \/ \E c \in load.slots, user \in Users, form \in load.forms :
          CreatePoll(c, user, form.question, form.options) /\ UNCHANGED ui
    \/ HandleDeleteDeclined
    \/ \E c \in load.slots, pollId \in PollIds : HandleDeleteAccepted(c, pollId)
    \/ ServerStep
    \/ HandleDeleteReturned
    \/ HandleDeleteThrown
    \/ RenderButton
    \/ Dropped

\* the server runs a call to its end, a response that arrived is handled
ButtonSpec ==
    /\ ButtonInit /\ [][ButtonNext]_vars
    /\ WF_vars(ServerStep) /\ WF_vars(HandleDeleteReturned) /\ WF_vars(Dropped)

----------------------------------------------------------------------------
(* Properties.  A request has just returned iff last # NoReturn; last.before  *)
(* is the store as the returning round trip found it, polls and votes the     *)
(* store as it left it.                                                       *)

Range(s) == {s[k] : k \in DOMAIN s}

StoreUnchanged == polls = last.before.polls /\ votes = last.before.votes

\* the rows of user on poll pollId before the returning round trip
VotesBefore(pollId, user) ==
    {r \in BagToSet(last.before.votes) : r.poll_id = pollId /\ r.user_id = user}

\* the request that returned was made by an authenticated user on a poll that
\* existed when it returned
OnExistingPoll(op) ==
    /\ last.op = op /\ last.user \in Users
    /\ last.pollId \in DOMAIN last.before.polls

OwnerBefore == last.before.polls[last.pollId].user_id

\* C1: in every reachable state, whatever the interleaving of submitVote calls,
\* the votes table holds at most one row per (poll, voter) pair.
C1_OneVotePerPollAndVoter ==
    \A r \in BagToSet(votes) : CountVotes(r.poll_id, r.user_id) = 1

\* a submitVote that passed the lookup is about to insert while the row of a
\* concurrent submitVote by the same user on the same poll is already there
C1_Witness ==
    \E c \in DOMAIN calls :
        /\ calls[c].op = "submitVote" /\ calls[c].pc = "insert"
        /\ CountVotes(calls[c].pollId, calls[c].user) = 1

\* the votes table holds exactly the one row the successful submitVote inserted
OnlyRowIsFirstVote(pollId, user) ==
    /\ CountVotes(pollId, user) = 1
    /\ \A v \in voted : v[1] = pollId /\ v[2] = user =>
            VotesOf(pollId, user) = {VoteRow(pollId, user, v[3])}

\* C2 as stated: after a first successful submitVote(P, i, U), every later
\* submitVote(P, j, U) fails with the duplicate-vote error and the votes table still
\* holds exactly one row for (P, U), recording i.
C2_Original ==
    (last.op = "submitVote" /\ last.revote) =>
        /\ last.error = ErrAlreadyVoted
        /\ OnlyRowIsFirstVote(last.pollId, last.user)

\* C2 (amended): after a first successful submitVote(P, i, U), every later
\* submitVote(P, j, U) made while P still exists fails with the duplicate-vote error,
\* the votes table still holds exactly one row for (P, U), recording i, and the call
\* changes no tally; once P has been deleted the later call fails with the
\* not-found error and no row for (P, U) is left.
C2_RevoteRejected ==
    (last.op = "submitVote" /\ last.revote) =>
        /\ StoreUnchanged
        /\ IF PollExists(last.pollId)
           THEN /\ last.error = ErrAlreadyVoted
                /\ OnlyRowIsFirstVote(last.pollId, last.user)
           ELSE /\ last.error = ErrPollNotFound
                /\ CountVotes(last.pollId, last.user) = 0

\* a second vote for another option has just been rejected; the first is the row
C2_Witness ==
    /\ last.op = "submitVote" /\ last.revote
    /\ last.error = ErrAlreadyVoted
    /\ VoteRow(last.pollId, last.user, last.optionIndex) \notin BagToSet(votes)
    /\ Tally(last.pollId, last.optionIndex) = 0

\* C3: for an existing poll P and an authenticated user A who is neither the owner
\* of P nor an admin, deletePoll(P) by A returns the authorization error and leaves
\* the polls and votes tables as they were: P is still returned by getPollById and
\* still listed on the admin page.
C3_DeleteDenied ==
    (OnExistingPoll("deletePoll") /\ last.user \notin Admins /\ OwnerBefore # last.user)
    => /\ last.error = ErrDeleteNotOwner
       /\ StoreUnchanged
       /\ \A viewer \in Sessions : GetPollById(last.pollId, viewer).error = NoError
       /\ \A admin \in Admins : last.pollId \in Range(AdminPage(admin).polls)

\* a user who is neither owner nor admin was just denied the deletion of a poll
\* that has a vote
C3_Witness ==
    /\ last.op = "deletePoll" /\ last.error = ErrDeleteNotOwner
    /\ PollExists(last.pollId)
    /\ \E u \in Users : CountVotes(last.pollId, u) = 1
    /\ GetPollById(last.pollId, last.user).error = NoError

\* C4: whenever deletePoll(P) is called for an existing P by its owner or by an
\* admin (also an admin who is not the owner), the call returns success and
\* afterwards P is not in the polls table and no vote row references P.
C4_AuthorizedDeleteRemoves ==
    (OnExistingPoll("deletePoll") /\ (OwnerBefore = last.user \/ last.user \in Admins))
    => /\ last.error = NoError
       /\ last.pollId \notin DOMAIN polls
       /\ \A r \in BagToSet(votes) : r.poll_id # last.pollId

\* C5 as stated: updatePoll(P, ...) by an authenticated user who is not the owner
\* of P fails with the authorization error.
C5_Original ==
    (OnExistingPoll("updatePoll") /\ OwnerBefore # last.user)
    => last.error = ErrUpdateNotOwner

\* C5 (amended): updatePoll(P, ...) called by an authenticated user who is not the
\* owner of P, an admin included, never succeeds and leaves P (question, options,
\* updated timestamp) and every other row unchanged; it fails with the
\* authorization error whenever the submitted question and options pass the input
\* validation, and with the validation error otherwise.
C5_UpdateDenied ==
    (OnExistingPoll("updatePoll") /\ OwnerBefore # last.user)
    => /\ StoreUnchanged
       /\ LET invalid == ValidateInput(last.question, FilterBoolean(last.options))
          IN  last.error = IF invalid = NoError THEN ErrUpdateNotOwner ELSE invalid

\* an admin who is not the owner was just denied the update of a poll
C5_Witness ==
    /\ last.op = "updatePoll" /\ last.user \in Admins
    /\ last.error = ErrUpdateNotOwner
    /\ PollExists(last.pollId) /\ polls[last.pollId].user_id # last.user

\* the error a request without a session must return
AnonymousErrors(ret) ==
    LET invalid == ValidateInput(ret.question, FilterBoolean(ret.options))
    IN  CASE ret.op = "submitVote" -> {ErrLoginVote}
          [] ret.op = "deletePoll" -> {ErrLoginDelete, ErrAuthSession}
          [] ret.op = "createPoll" ->
                IF invalid # NoError THEN {invalid} ELSE {ErrLoginCreate, ErrAuthSession}
          [] ret.op = "updatePoll" ->
                IF invalid # NoError THEN {invalid} ELSE {ErrLoginUpdate, ErrAuthSession}

\* C6: createPoll, updatePoll, deletePoll and submitVote called without a session
\* each return an error (the login error, or the validation error of the form) and
\* leave the polls and votes tables as they were; no row of either table ever
\* carries an absent user id.
C6_AnonymousChangesNothing ==
    /\ \A r \in BagToSet(votes) : r.user_id \in Users
    /\ \A p \in DOMAIN polls : polls[p].user_id \in Users
    /\ (last.op \in {"createPoll", "updatePoll", "deletePoll", "submitVote"}
            /\ last.user = NoUser)
       => last.error \in AnonymousErrors(last) /\ StoreUnchanged

\* a vote for a valid option of an existing poll was just refused for want of a
\* session
C6_Witness ==
    /\ last.op = "submitVote" /\ last.user = NoUser /\ last.error = ErrLoginVote
    /\ PollExists(last.pollId)
    /\ last.optionIndex \in 0..(Len(polls[last.pollId].options) - 1)

\* C7: the lookup of submitVote is not atomic with its insert.  Two submitVote
\* calls by one user on one poll can both pass the lookup before either inserts
\* (C7_Witness); whenever an insert then finds a row for (poll, user) the store's
\* uniqueness constraint rejects it and the table is unchanged, and an insert that
\* finds none on an existing poll succeeds: of the calls that raced, exactly one
\* returns success.
C7_ConstraintDecidesRace ==
    /\ \A v, w \in voted : v[1] = w[1] /\ v[2] = w[2] => v = w
    /\ (last.op = "submitVote" /\ last.pc = "insert") =>
        IF VotesBefore(last.pollId, last.user) # {}
        THEN last.error = ErrUniqueViolation /\ StoreUnchanged
        ELSE IF last.pollId \in DOMAIN last.before.polls
        THEN /\ last.error = NoError
             /\ votes = last.before.votes (+)
                    SetToBag({VoteRow(last.pollId, last.user, last.optionIndex)})
        ELSE last.error = ErrForeignKey /\ StoreUnchanged

\* a submitVote that passed the lookup before the other call's insert committed
\* has just been rejected by the constraint; the other call's row is the only one
C7_Witness ==
    /\ last.op = "submitVote" /\ last.error = ErrUniqueViolation
    /\ ~last.revote
    /\ HasVoted(last.pollId, last.user)
    /\ CountVotes(last.pollId, last.user) = 1

C9_StoredPollsValid ==
    \A p \in DOMAIN polls :
        /\ Len(polls[p].options) \in 2..10
        /\ \A k \in DOMAIN polls[p].options :
                /\ Len(Trim(polls[p].options[k])) > 0
                /\ Len(polls[p].options[k]) <= 200
        /\ Len(Trim(polls[p].question)) > 0
        /\ Len(polls[p].question) <= 500

\* a poll at the limits is stored: 10 options, or an option of 200 characters, or
\* a question of 500, written by updatePoll
C9_Witness ==
    \E p \in DOMAIN polls :
        /\ polls[p].updated_at > polls[p].created_at
        /\ \/ Len(polls[p].options) = 10
           \/ \E k \in DOMAIN polls[p].options : Len(polls[p].options[k]) = 200
           \/ Len(polls[p].question) = 500

\* C10 as stated: every submitted option list with fewer than 2 or more than 10
\* entries is rejected by createPoll and updatePoll.
C10_Original ==
    (last.op \in {"createPoll", "updatePoll"}
        /\ (Len(last.options) < 2 \/ Len(last.options) > 10))
    => last.error # NoError

\* C10 (amended): every submitted option list that has fewer than 2 or more than
\* 10 entries once its exactly empty entries are dropped is rejected by createPoll
\* and updatePoll (with the too-few or too-many error, or the question error if the
\* question is blank), and nothing is stored.
C10_OptionCountRejected ==
    (last.op \in {"createPoll", "updatePoll"}
        /\ Len(SelectSeq(last.options, LAMBDA o : o # <<>>)) \notin 2..10)
    => /\ last.error \in {ErrQuestion, ErrTooFew, ErrTooMany}
       /\ last.error = ErrQuestion <=>
            (last.question = <<>> \/ Len(Trim(last.question)) = 0)
       /\ StoreUnchanged

\* a list of 11 non-empty options was just refused
C10_Witness ==
    /\ last.op \in {"createPoll", "updatePoll"}
    /\ last.error = ErrTooMany
    /\ Len(SelectSeq(last.options, LAMBDA o : o # <<>>)) = 11

\* the request that returned was a createPoll or an updatePoll
IsForm == last.op \in {"createPoll", "updatePoll"}

\* the errors of the input validation
ValidationErrors ==
    {ErrQuestion, ErrTooFew, ErrTooMany, ErrQuestionLong, ErrOptionEmpty, ErrOptionLong}

\* the submitted options without the exactly empty entries, in the submitted order
NonEmptyEntries(submitted) == SelectSeq(submitted, LAMBDA o : o # <<>>)

\* an option the validation must refuse: blank after trimming, or too long
BadOption(o) == Len(Trim(o)) = 0 \/ Len(o) > 200

\* C11 as stated: every submitted option list containing an option that is empty
\* after trimming (the exactly empty string included) or longer than 200
\* characters is rejected by createPoll and updatePoll, and nothing is stored.
C11_Original ==
    (IsForm /\ \E k \in DOMAIN last.options : BadOption(last.options[k]))
    => last.error # NoError /\ StoreUnchanged

\* C11 (amended): every submitted option list that, once its exactly empty entries
\* are dropped, still contains an option that is empty after trimming or longer
\* than 200 characters is rejected by createPoll and updatePoll with a validation
\* error, and nothing is stored; exactly empty entries are dropped, not rejected.
C11_BadOptionRejected ==
    (IsForm /\ \E k \in DOMAIN NonEmptyEntries(last.options) :
                    BadOption(NonEmptyEntries(last.options)[k]))
    => last.error \in ValidationErrors /\ StoreUnchanged

\* an option of 200 characters behind one blank, 201 in all, was just refused as
\* too long
C11_Witness ==
    /\ IsForm /\ last.error = ErrOptionLong
    /\ \E k \in DOMAIN last.options :
            Len(last.options[k]) = 201 /\ Len(Trim(last.options[k])) = 200

\* C12: every question longer than 500 characters is rejected by createPoll and
\* updatePoll with a validation error and nothing is stored, whatever the options
\* and whoever the caller.
C12_LongQuestionRejected ==
    (IsForm /\ Len(last.question) > 500)
    => last.error \in ValidationErrors /\ StoreUnchanged

\* a question of 500 characters behind one blank, 501 in all, was just refused as
\* too long, its options being valid
C12_Witness ==
    /\ IsForm /\ last.error = ErrQuestionLong
    /\ Len(last.question) = 501 /\ Len(Trim(last.question)) = 500

\* C13: a successful createPoll by authenticated user U adds exactly one poll to
\* the store, owned by U, whose question and options are the trimmed submitted
\* values in the submitted order; no other poll and no vote changes.
C13_CreateAddsOnePoll ==
    (last.op = "createPoll" /\ last.error = NoError)
    => /\ last.user \in Users
       /\ votes = last.before.votes
       /\ \E p \in DOMAIN polls \ DOMAIN last.before.polls :
            /\ DOMAIN polls = DOMAIN last.before.polls \cup {p}
            /\ \A o \in DOMAIN last.before.polls : polls[o] = last.before.polls[o]
            /\ polls[p].user_id = last.user
            /\ polls[p].question = Trim(last.question)
            /\ LET submitted == NonEmptyEntries(last.options)
               IN  /\ Len(polls[p].options) = Len(submitted)
                   /\ \A k \in DOMAIN submitted :
                        polls[p].options[k] = Trim(submitted[k])

\* a second poll was just created from a padded question and a padded option,
\* next to a poll of another user
C13_Witness ==
    /\ last.op = "createPoll" /\ last.error = NoError
    /\ last.question # Trim(last.question)
    /\ \E k \in DOMAIN last.options : last.options[k] # Trim(last.options[k])
    /\ \E o \in DOMAIN last.before.polls : last.before.polls[o].user_id # last.user

\* C14: for an existing poll P and valid input, updatePoll(P, ...) called by the
\* owner of P succeeds, and getPollById(P) by any viewer then returns the new
\* trimmed question and options.
C14_OwnerUpdateVisible ==
    (/\ OnExistingPoll("updatePoll") /\ OwnerBefore = last.user
     /\ ValidateInput(last.question, NonEmptyEntries(last.options)) = NoError)
    => /\ last.pc = "update"
       /\ last.error = NoError
       /\ votes = last.before.votes
       /\ \A viewer \in Sessions :
            LET got == GetPollById(last.pollId, viewer)
            IN  /\ got.error = NoError
                /\ got.poll.question = Trim(last.question)
                /\ got.poll.options = TrimAll(NonEmptyEntries(last.options))
                /\ got.poll.user_id = last.user

\* the owner has just replaced a poll's options by a list of another length
C14_Witness ==
    /\ last.op = "updatePoll" /\ last.error = NoError
    /\ PollExists(last.pollId)
    /\ Len(last.before.polls[last.pollId].options) # Len(polls[last.pollId].options)
    /\ polls[last.pollId].updated_at > polls[last.pollId].created_at

\* the response of the route guard to the request that just passed through it
Response == last.result.response

UnderAdmin(pathname) == StartsWith(pathname, "/admin")

\* C15: no request whose path is under the admin prefix passes the route guard
\* unless the identity carries the admin flag: without an identity the guard
\* redirects to the login page, with an identity lacking the flag it redirects to
\* the poll listing with an error indicator, and only with the flag it proceeds.
C15_AdminRoutesGuarded ==
    (last.op = "updateSession" /\ UnderAdmin(last.pathname))
    => IF last.user = NoUser
       THEN Response.kind = "redirect" /\ Response.pathname = "/login"
       ELSE IF last.user \notin Admins
       THEN /\ Response.kind = "redirect" /\ Response.pathname = "/polls"
            /\ "error" \in DOMAIN Response.searchParams
            /\ Response.searchParams["error"] = "unauthorized"
       ELSE Response.kind = "next"

\* a user without the admin flag asked for a page below /admin and was sent to the
\* poll listing
C15_Witness ==
    /\ last.op = "updateSession" /\ last.pathname = "/admin/users"
    /\ last.user \in Users \ Admins
    /\ Response.kind = "redirect" /\ Response.pathname = "/polls"

\* C16: for a request without an identity to any path under the admin prefix (the
\* prefix itself or a sub-path), the destination recorded in the guard's redirect
\* to login equals the path that was requested.
C16_RedirectKeepsDestination ==
    (last.op = "updateSession" /\ UnderAdmin(last.pathname) /\ last.user = NoUser)
    => /\ Response.kind = "redirect" /\ Response.pathname = "/login"
       /\ "redirect" \in DOMAIN Response.searchParams
       /\ Response.searchParams["redirect"] = last.pathname

\* C17: for a request whose path is not under the admin prefix, the route guard
\* redirects to login iff no identity is present and the path is not public (it
\* starts with none of /login, /register, /auth, /_next, /api and is not exactly
\* /); in every other case the request proceeds unmodified.
C17_GeneralGuard ==
    (last.op = "updateSession" /\ ~UnderAdmin(last.pathname))
    => LET public ==
               \/ \E prefix \in {"/login", "/register", "/auth", "/_next", "/api"} :
                      StartsWith(last.pathname, prefix)
               \/ last.pathname = "/"
       IN  IF last.user = NoUser /\ ~public
           THEN /\ Response.kind = "redirect" /\ Response.pathname = "/login"
                /\ Response.searchParams = last.result.request.searchParams
           ELSE Response = [kind |-> "next"]

\* a visitor without a session asked for a poll page and was sent to login, and
\* nothing of the store changed
C17_Witness ==
    /\ last.op = "updateSession" /\ last.pathname = "/polls/1"
    /\ last.user = NoUser
    /\ Response.kind = "redirect" /\ Response.pathname = "/login"
    /\ PollExists(1)

ListedNewestFirst(ids) ==
    \A i, j \in DOMAIN ids :
        i < j => /\ ids[i] # ids[j]
                 /\ polls[ids[i]].created_at >= polls[ids[j]].created_at

\* C19: getUserPolls returns an authentication error with an empty list when
\* there is no acting user; otherwise it returns exactly the polls whose owner is
\* the acting user, newest first, each with canEdit true and canDelete true.
C19_OwnPollsListed ==
    (last.op = "getUserPolls")
    => /\ StoreUnchanged
       /\ IF last.user = NoUser
          THEN last.error = "Not authenticated" /\ last.result.polls = <<>>
          ELSE LET listed == last.result.polls
               IN  /\ last.error = NoError
                   /\ {listed[k].id : k \in DOMAIN listed}
                        = {p \in DOMAIN polls : polls[p].user_id = last.user}
                   /\ ListedNewestFirst([k \in DOMAIN listed |-> listed[k].id])
                   /\ \A k \in DOMAIN listed :
                        /\ listed[k].poll = polls[listed[k].id]
                        /\ listed[k].canEdit = "true"
                        /\ listed[k].canDelete = "true"

\* a user was just listed two polls of their own, the newer first, while the store
\* holds a poll of another user
C19_Witness ==
    /\ last.op = "getUserPolls" /\ Len(last.result.polls) = 2
    /\ last.result.polls[1].poll.created_at > last.result.polls[2].poll.created_at
    /\ \E p \in DOMAIN polls : polls[p].user_id # last.user

\* C20: the admin listing of all polls is produced only for an acting user with
\* the admin flag: without a user the admin page redirects to login, for a user
\* without the flag it redirects to the poll listing with an error indicator, and
\* for an admin it lists every poll in the store, newest first, whoever owns it.
C20_AdminListing ==
    (last.op = "AdminPage")
    => /\ StoreUnchanged
       /\ IF last.user = NoUser
          THEN last.result = [kind |-> "redirect", redirect |-> "/login"]
          ELSE IF last.user \notin Admins
          THEN last.result =
                    [kind |-> "redirect", redirect |-> "/polls?error=unauthorized"]
          ELSE /\ last.result.kind = "page"
               /\ Range(last.result.polls) = DOMAIN polls
               /\ ListedNewestFirst(last.result.polls)

\* an admin was just listed the polls of two owners, the newest first
C20_Witness ==
    /\ last.op = "AdminPage" /\ last.user \in Admins
    /\ last.result.kind = "page" /\ Len(last.result.polls) >= 2
    /\ \E i, j \in DOMAIN last.result.polls :
            polls[last.result.polls[i]].user_id # polls[last.result.polls[j]].user_id
    /\ polls[last.result.polls[1]].created_at
            > polls[last.result.polls[Len(last.result.polls)]].created_at

\* the four server actions that write
Mutations == {"createPoll", "updatePoll", "deletePoll", "submitVote"}

\* the messages a server action returns: its own, and those of the store
ErrorStrings ==
    ValidationErrors \cup
    {ErrLoginCreate, ErrLoginVote, ErrLoginDelete, ErrLoginUpdate, ErrAlreadyVoted,
     ErrPollNotFound, ErrInvalidOption, ErrDeleteNotOwner, ErrUpdateNotOwner,
     ErrAuthSession, ErrUniqueViolation, ErrForeignKey, ErrRowSecurity}

\* C21: every call of createPoll, updatePoll, deletePoll and submitVote returns
\* either success (error null) or an error string, and a call that returns an
\* error has changed neither table: the only steps that change the polls or the
\* votes table are steps in which a call returns success.
C21_ErrorsChangeNothing ==
    /\ [](last.op \in Mutations =>
            /\ last.error \in {NoError} \cup ErrorStrings
            /\ last.error # NoError => StoreUnchanged)
    /\ [][(polls' # polls \/ votes' # votes) =>
            (last'.op \in Mutations /\ last'.error = NoError)]_vars

\* an update of a poll that has a vote was just refused to a signed-in user who
\* does not own it, after a well-formed form passed the validation
C21_Witness ==
    /\ last.op = "updatePoll" /\ last.error = ErrUpdateNotOwner
    /\ last.question # polls[last.pollId].question
    /\ votes # EmptyBag

\* the polls that the call that returned added, changed or removed
ChangedPolls ==
    {p \in DOMAIN polls \cup DOMAIN last.before.polls :
        \/ p \notin DOMAIN polls
        \/ p \notin DOMAIN last.before.polls
        \/ polls[p] # last.before.polls[p]}

\* the owner of a poll that is, or was, in the table
OwnerOf(p) ==
    IF p \in DOMAIN polls THEN polls[p].user_id ELSE last.before.polls[p].user_id

\* C22: when createPoll, updatePoll or deletePoll returns success, no cached
\* rendering is left of a view the change affects: of the poll listing of the
\* owner of a poll that was added, changed or removed, and of the detail page of
\* a poll that was changed or removed.
C22_AffectedViewsInvalidated ==
    (last.op \in {"createPoll", "updatePoll", "deletePoll"} /\ last.error = NoError)
    => \A key \in DOMAIN cache, p \in ChangedPolls :
            /\ ~(key.path = ListingPath /\ key.viewer = OwnerOf(p))
            /\ ~(key.path = DetailPath(p) /\ p \in DOMAIN last.before.polls)

\* C23: a vote row, once inserted, is never changed or removed by anything but the
\* deletion of its poll: whatever createPoll, updatePoll, submitVote and deletePoll
\* calls follow, as long as the poll exists the row of every successful vote
\* (P, U, i) is there, alone for (P, U), with option index i.
C23_VoteRowsStay ==
    \A v \in voted :
        PollExists(v[1]) =>
            /\ CountVotes(v[1], v[2]) = 1
            /\ VotesOf(v[1], v[2]) = {VoteRow(v[1], v[2], v[3])}

\* the vote on one poll is still there after another poll was deleted and the
\* voted poll itself was updated
C23_Witness ==
    \E v \in voted, p \in 1..nextId :
        /\ p # v[1] /\ ~PollExists(p) /\ PollExists(v[1])
        /\ polls[v[1]].updated_at > polls[v[1]].created_at
        /\ VoteRow(v[1], v[2], v[3]) \in BagToSet(votes)

\* C24: under any interleaving of submitVote(P, i, U) with an updatePoll(P, ...) by
\* the owner that changes the number of options, the option index of a vote row
\* is a valid index into P's options as they are when the row is inserted.
C24_IndexValidAtInsert ==
    (last.op = "submitVote" /\ last.pc = "insert" /\ last.error = NoError)
    => /\ last.pollId \in DOMAIN last.before.polls
       /\ last.optionIndex \in
            0..(Len(last.before.polls[last.pollId].options) - 1)

\* C25: submitVote evaluates its guards in the order session, existing vote, poll,
\* option index and returns the error of the first that fails: without a session
\* always the login error; with a vote on P found by the lookup the duplicate-vote
\* error, whatever the index; then not-found if P is missing, then the
\* invalid-option error; only a call that passed all four reaches the insert.
C25_GuardOrder ==
    (last.op = "submitVote")
    => /\ last.user = NoUser => last.error = ErrLoginVote /\ last.pc = "check"
       /\ (last.user # NoUser /\ last.pc = "check") =>
            /\ last.error = ErrAlreadyVoted
            /\ VotesBefore(last.pollId, last.user) # {}
       /\ last.pc = "getPoll" =>
            IF last.pollId \notin DOMAIN last.before.polls
            THEN last.error = ErrPollNotFound
            ELSE /\ last.error = ErrInvalidOption
                 /\ last.optionIndex \notin
                        0..(Len(last.before.polls[last.pollId].options) - 1)
       /\ last.pc = "insert" =>
            last.error \in {NoError, ErrUniqueViolation, ErrForeignKey}

\* a user who had voted sent an index below zero and got the duplicate-vote error
C25_Witness ==
    /\ last.op = "submitVote" /\ last.error = ErrAlreadyVoted
    /\ last.optionIndex < 0
    /\ HasVoted(last.pollId, last.user)

\* C26: updatePoll changes only the question, the options and the updated
\* timestamp of the targeted poll; that poll's id, owner and created timestamp
\* and every other poll are as before; no operation ever changes the owner or
\* the created timestamp of a poll that stays in the store.
C26_UpdateFrame ==
    /\ (last.op = "updatePoll") =>
            /\ votes = last.before.votes
            /\ DOMAIN polls = DOMAIN last.before.polls
            /\ \A p \in DOMAIN polls : p # last.pollId => polls[p] = last.before.polls[p]
    /\ \A p \in DOMAIN polls \cap DOMAIN last.before.polls :
            /\ polls[p].user_id = last.before.polls[p].user_id
            /\ polls[p].created_at = last.before.polls[p].created_at

\* the owner has just changed one of two polls, the other being another user's
C26_Witness ==
    /\ last.op = "updatePoll" /\ last.error = NoError
    /\ PollExists(last.pollId)
    /\ polls[last.pollId] # last.before.polls[last.pollId]
    /\ \E p \in DOMAIN polls : polls[p].user_id # last.user

\* C27: the permission flags agree with the guards of the mutations in every
\* state: for every existing poll P and viewer V, getPollById reports canDelete
\* true iff deletePoll(P) called by V passes its authorization check, and canEdit
\* true iff updatePoll(P, valid input) called by V passes its ownership check.
C27_FlagsAgreeWithGuards ==
    \A p \in DOMAIN polls, v \in Sessions :
        LET got == GetPollById(p, v)
        IN  /\ got.canDelete = "true" <=> (v # NoUser /\ ~DeleteDenied(polls[p], v))
            /\ got.canEdit = "true" <=> (v # NoUser /\ ~UpdateDenied(polls[p], v))

\* an admin's deletePoll of another user's poll has passed the authorization check
\* and getPollById shows that admin canDelete without canEdit
C27_Witness ==
    \E c \in DOMAIN calls :
        /\ calls[c].op = "deletePoll" /\ calls[c].pc = "delete"
        /\ PollExists(calls[c].pollId)
        /\ polls[calls[c].pollId].user_id # calls[c].user
        /\ GetPollById(calls[c].pollId, calls[c].user).canDelete = "true"
        /\ GetPollById(calls[c].pollId, calls[c].user).canEdit = "false"

\* C28: in every reachable state, under any interleaving of submitVote with
\* deletePoll on the same poll, every vote row references a poll that is in the
\* polls table: a submitVote whose poll lookup passed before the poll was deleted
\* leaves no row for the deleted poll.
C28_NoOrphanVotes ==
    \A r \in BagToSet(votes) : r.poll_id \in DOMAIN polls

\* the insert of a submitVote that had found the poll was refused because the poll
\* had been deleted meanwhile
C28_Witness ==
    /\ last.op = "submitVote" /\ last.pc = "insert"
    /\ last.error = ErrForeignKey
    /\ last.pollId \in 1..nextId /\ ~PollExists(last.pollId)
    /\ votes = EmptyBag

\* C29: in the create form, after any sequence of addOption, removeOption and
\* handleOptionChange events, two removeOption events handled against the same
\* render included, the options state has at least 2 entries.
C29_AtLeastTwoOptions == Len(formOptions) >= 2

\* a call of deletePoll starts in this step
CallIssued ==
    \E c \in DOMAIN calls :
        /\ calls[c] = Idle /\ last = NoReturn
        /\ \/ calls'[c].op = "deletePoll"
           \/ last'.op = "deletePoll" /\ last'.pc = "check"

====
